---------------------------- MODULE Spec2Model ----------------------------
(***************************************************************************)
(* A model of the GameSearch engine of src/GameSearch.py: move             *)
(* enumeration over a grid maze, the terminal test and the utility, the    *)
(* two tree searches (minimax, alpha_beta_pruning) and find_best_move.     *)
(*                                                                         *)
(* The engine is constructed once over a maze and a goal cell; after that  *)
(* a single-threaded caller invokes one method at a time.  Each method is  *)
(* a pure function of (maze, goal_position, arguments), so each is an      *)
(* operator computed as the Python computes it, and one action per method  *)
(* applies it to arguments drawn from the cells of the maze.               *)
(*                                                                         *)
(* Python values: a cell (row, col) is the tuple <<row, col>>; the floats  *)
(* -inf and +inf are the integers NegInf and PosInf, which order below and *)
(* above every utility; a call's outcome is a record whose kind is         *)
(* "value" (a normal return of a number or a cell), "None" (the function   *)
(* returned None), or the name of the exception that left it.              *)
(***************************************************************************)
EXTENDS Integers, Sequences, FiniteSets

\* Largest maze explored: rows in 1..MaxRows, cols in 1..MaxCols.
MaxRows == 2
MaxCols == 2

\* self.MAX_DEPTH
MAX_DEPTH == 5

\* float('-inf') and float('inf')
NegInf == -1000
PosInf == 1000

\* The keys of a maze_map entry, in the order the dictionary yields them.
DirOrder == <<"E", "W", "N", "S">>

Directions == {"E", "W", "N", "S"}

\* direction_map of get_possible_moves: direction -> (row offset, col offset)
direction_map ==
    [d \in Directions |->
        CASE d = "E" -> <<0, 1>>
          [] d = "W" -> <<0, -1>>
          [] d = "N" -> <<-1, 0>>
          [] d = "S" -> <<1, 0>>]

\* The algorithm tags a caller may pass: the two supported ones and another.
Algorithms == {"MM", "AB", "XX"}

\* Python's None where a cell is expected.
None == <<>>

VARIABLES
    maze,           \* self.maze: [rows, cols, maze_map]
    goal_position,  \* self.goal_position
    op,             \* the method being called, "idle" between calls
    player,         \* argument player (positions, for get_possible_moves)
    opponent,       \* argument opponent
    depth,          \* argument depth
    alpha,          \* argument alpha
    beta,           \* argument beta
    is_max_turn,    \* argument is_max_turn
    algorithm,      \* argument algorithm
    ret             \* what the call returned or raised

vars == <<maze, goal_position, op, player, opponent, depth, alpha, beta,
          is_max_turn, algorithm, ret>>

engine == <<maze, goal_position>>

-----------------------------------------------------------------------------
(* The mazes. *)

CellsOf(rows, cols) == (1..rows) \X (1..cols)

Cells == CellsOf(maze.rows, maze.cols)

\* A maze_map over rows x cols: every cell has an entry with the four flags.
\* A passage in a direction of `open` is open wherever its target is inside
\* the grid, and also at the border when `leaky` (the engine, not the maze,
\* is what keeps moves inside the grid).
MazeMap(rows, cols, open, leaky) ==
    [c \in CellsOf(rows, cols) |->
        [d \in Directions |->
            LET r == c[1] + direction_map[d][1]
                k == c[2] + direction_map[d][2]
            IN  IF d \in open /\ (leaky \/ (r \in 1..rows /\ k \in 1..cols))
                THEN 1 ELSE 0]]

-----------------------------------------------------------------------------
(* Python builtins. *)

max(a, b) == IF a >= b THEN a ELSE b

min(a, b) == IF a <= b THEN a ELSE b

-----------------------------------------------------------------------------
(* GameSearch.get_possible_moves *)

RECURSIVE MovesFrom(_, _)
\* The loop over possible_directions.items(), from the i-th key on.
MovesFrom(positions, i) ==
    IF i > Len(DirOrder) THEN <<>>
    ELSE LET direction == DirOrder[i]
             isOpen == maze.maze_map[positions][direction]
             new_row == positions[1] + direction_map[direction][1]
             new_col == positions[2] + direction_map[direction][2]
         IN  IF isOpen = 1 /\ 1 <= new_row /\ new_row <= maze.rows
                           /\ 1 <= new_col /\ new_col <= maze.cols
             THEN <<(<<new_row, new_col>>)>> \o MovesFrom(positions, i + 1)
             ELSE MovesFrom(positions, i + 1)

RECURSIVE MovesFromNoUpperBound(_, _)
\* get_possible_moves with the upper bounds of the range test left out.
MovesFromNoUpperBound(positions, i) ==
    IF i > Len(DirOrder) THEN <<>>
    ELSE LET direction == DirOrder[i]
             isOpen == maze.maze_map[positions][direction]
             new_row == positions[1] + direction_map[direction][1]
             new_col == positions[2] + direction_map[direction][2]
         IN  IF isOpen = 1 /\ 1 <= new_row /\ 1 <= new_col
             THEN <<(<<new_row, new_col>>)>>
                      \o MovesFromNoUpperBound(positions, i + 1)
             ELSE MovesFromNoUpperBound(positions, i + 1)

get_possible_moves_no_upper_bound(positions) ==
    MovesFromNoUpperBound(positions, 1)

get_possible_moves(positions) == MovesFrom(positions, 1)

-----------------------------------------------------------------------------
(* GameSearch.utility_function and GameSearch.is_terminal *)

\* utility_function with the two tests in the other order.
utility_function_opponent_first(player_position, opponent_position) ==
    IF opponent_position = goal_position THEN -1
    ELSE IF player_position = goal_position THEN 1
    ELSE 0

utility_function(player_position, opponent_position) ==
    IF player_position = goal_position THEN 1
    ELSE IF opponent_position = goal_position THEN -1
    ELSE 0

is_terminal(p, o) == p = goal_position \/ o = goal_position

-----------------------------------------------------------------------------
(* A node of the search tree, as the arguments of one recursive call. *)

Node(p, o, d, t) ==
    [player |-> p, opponent |-> o, depth |-> d, is_max_turn |-> t]

-----------------------------------------------------------------------------
(* GameSearch.minimax *)

\* The calls the two loops of minimax make at a node, in order.  Both loops
\* run over get_possible_moves(player); the first assigns each move to
\* player, the second to opponent.
MinimaxChildren(p, o, d, t) ==
    LET moves == get_possible_moves(p)
    IN  IF t
        THEN [i \in 1..Len(moves) |-> Node(moves[i], o, d + 1, FALSE)]
        ELSE [i \in 1..Len(moves) |-> Node(p, moves[i], d + 1, TRUE)]

RECURSIVE minimax(_, _, _, _)
RECURSIVE MinimaxLoop(_, _, _, _)

\* One of the two for loops, from the i-th child on, with max_eval or
\* min_eval so far in acc.
MinimaxLoop(children, i, t, acc) ==
    IF i > Len(children) THEN acc
    ELSE LET c == children[i]
             eval == minimax(c.player, c.opponent, c.depth, c.is_max_turn)
         IN  MinimaxLoop(children, i + 1, t,
                         IF t THEN max(acc, eval) ELSE min(acc, eval))

minimax(p, o, d, t) ==
    IF d = MAX_DEPTH \/ is_terminal(p, o) THEN utility_function(p, o)
    ELSE IF t THEN MinimaxLoop(MinimaxChildren(p, o, d, t), 1, TRUE, NegInf)
    ELSE MinimaxLoop(MinimaxChildren(p, o, d, t), 1, FALSE, PosInf)

-----------------------------------------------------------------------------
(* GameSearch.alpha_beta_pruning *)

\* The outcome of a call: `explored` counts the moves of the node whose
\* recursive call was made, `evals` lists the values those calls returned,
\* and alpha, beta are the bounds when the loop was left.
Outcome(kind, val, explored, evals, a, b) ==
    [kind |-> kind, val |-> val, explored |-> explored, evals |-> evals,
     alpha |-> a, beta |-> b]

\* The calls the two loops of alpha_beta_pruning can make at a node, in
\* order.  Both loops run over get_possible_moves(player).
AlphaBetaChildren(p, o, d, t) ==
    LET moves == get_possible_moves(p)
    IN  IF t
        THEN [i \in 1..Len(moves) |-> Node(moves[i], o, d + 1, FALSE)]
        ELSE [i \in 1..Len(moves) |-> Node(p, moves[i], d + 1, TRUE)]

RECURSIVE alpha_beta_pruning(_, _, _, _, _, _)
RECURSIVE AlphaBetaMinLoop(_, _, _, _, _, _)

\* The loop of the maximizing branch, entered at the i-th child.  float()
\* of a child that returned None raises TypeError.  After the first child
\* the loop is left either way: by break, after which the function ends
\* without a return statement, or by the return inside the loop body.
AlphaBetaMaxLoop(children, i, a, b, max_eval, evals) ==
    IF i > Len(children) THEN Outcome("None", 0, i - 1, evals, a, b)
    ELSE LET c == children[i]
             r == alpha_beta_pruning(c.player, c.opponent, c.depth, a, b,
                                     c.is_max_turn)
         IN  IF r.kind # "value"
             THEN Outcome("TypeError", 0, i, evals, a, b)
             ELSE LET eval == r.val
                      max_eval2 == max(max_eval, eval)
                      a2 == max(a, eval)
                  IN  IF b <= a2
                      THEN Outcome("None", 0, i, Append(evals, eval), a2, b)
                      ELSE Outcome("value", max_eval2, i,
                                   Append(evals, eval), a2, b)

\* The loop of the minimizing branch, from the i-th child on.  min() with
\* a child that returned None raises TypeError.
AlphaBetaMinLoop(children, i, a, b, min_eval, evals) ==
    IF i > Len(children) THEN Outcome("value", min_eval, i - 1, evals, a, b)
    ELSE LET c == children[i]
             r == alpha_beta_pruning(c.player, c.opponent, c.depth, a, b,
                                     c.is_max_turn)
         IN  IF r.kind # "value"
             THEN Outcome("TypeError", 0, i, evals, a, b)
             ELSE LET eval == r.val
                      min_eval2 == min(min_eval, eval)
                      b2 == min(b, eval)
                  IN  IF b2 <= a
                      THEN Outcome("value", min_eval2, i,
                                   Append(evals, eval), a, b2)
                      ELSE AlphaBetaMinLoop(children, i + 1, a, b2, min_eval2,
                                            Append(evals, eval))

alpha_beta_pruning(p, o, d, a, b, t) ==
    IF d = MAX_DEPTH \/ is_terminal(p, o)
    THEN Outcome("value", utility_function(p, o), 0, <<>>, a, b)
    ELSE IF t
    THEN AlphaBetaMaxLoop(AlphaBetaChildren(p, o, d, t), 1, a, b, NegInf, <<>>)
    ELSE AlphaBetaMinLoop(AlphaBetaChildren(p, o, d, t), 1, a, b, PosInf, <<>>)

-----------------------------------------------------------------------------
(* GameSearch.find_best_move *)

\* The outcome of find_best_move: `move` is best_move, `searched` lists the
\* root nodes handed to minimax or alpha_beta_pruning so far.
Best(kind, move, searched) ==
    [kind |-> kind, move |-> move, searched |-> searched]

\* The search an iteration of find_best_move runs for a supported tag:
\* depth 0, the opponent to move, and for 'AB' the window (-inf, +inf).
search(alg, p, o) ==
    IF alg = "MM"
    THEN Outcome("value", minimax(p, o, 0, FALSE), 0, <<>>, NegInf, PosInf)
    ELSE alpha_beta_pruning(p, o, 0, NegInf, PosInf, FALSE)

RECURSIVE FindBestMoveLoop(_, _, _, _, _, _, _, _)

\* The loop over get_possible_moves(player), from the i-th move on.  Every
\* iteration searches from (player, opponent), the arguments as passed in.
\* An exception in the search leaves find_best_move as it is; comparing a
\* None from the search with best_val raises TypeError.
FindBestMoveLoop(p, o, alg, moves, i, best_val, best_move, searched) ==
    IF i > Len(moves)
    THEN Best(IF best_move = None THEN "None" ELSE "value", best_move, searched)
    ELSE IF alg \notin {"MM", "AB"}
    THEN Best("ValueError", None, searched)
    ELSE LET root == Node(p, o, 0, FALSE)
             r == search(alg, p, o)
         IN  IF r.kind # "value"
             THEN Best("TypeError", None, Append(searched, root))
             ELSE IF r.val > best_val
             THEN FindBestMoveLoop(p, o, alg, moves, i + 1, r.val, moves[i],
                                   Append(searched, root))
             ELSE FindBestMoveLoop(p, o, alg, moves, i + 1, best_val,
                                   best_move, Append(searched, root))

find_best_move(p, o, alg) ==
    FindBestMoveLoop(p, o, alg, get_possible_moves(p), 1, NegInf, None, <<>>)

-----------------------------------------------------------------------------
(* The specification. *)

Idle == [kind |-> "idle"]

Init ==
    /\ \E rows \in 1..MaxRows, cols \in 1..MaxCols,
          open \in SUBSET Directions, leaky \in BOOLEAN :
          maze = [rows |-> rows, cols |-> cols,
                  maze_map |-> MazeMap(rows, cols, open, leaky)]
    /\ goal_position \in Cells
    /\ op = "idle"
    /\ player = None
    /\ opponent = None
    /\ depth = 0
    /\ alpha = NegInf
    /\ beta = PosInf
    /\ is_max_turn = FALSE
    /\ algorithm = ""
    /\ ret = Idle

CallGetPossibleMoves ==
    /\ op = "idle"
    /\ \E positions \in Cells :
          /\ player' = positions
          /\ ret' = get_possible_moves(positions)
    /\ op' = "get_possible_moves"
    /\ UNCHANGED <<engine, opponent, depth, alpha, beta, is_max_turn, algorithm>>

CallIsTerminal ==
    /\ op = "idle"
    /\ \E p \in Cells, o \in Cells :
          /\ player' = p
          /\ opponent' = o
          /\ ret' = is_terminal(p, o)
    /\ op' = "is_terminal"
    /\ UNCHANGED <<engine, depth, alpha, beta, is_max_turn, algorithm>>

CallUtilityFunction ==
    /\ op = "idle"
    /\ \E p \in Cells, o \in Cells :
          /\ player' = p
          /\ opponent' = o
          /\ ret' = utility_function(p, o)
    /\ op' = "utility_function"
    /\ UNCHANGED <<engine, depth, alpha, beta, is_max_turn, algorithm>>

\* The search windows a call is made with: alpha below beta, as at the root
\* (-inf, +inf) and at every node the search itself calls.
Bounds == {NegInf, -1, 0, 1, PosInf}

CallMinimax ==
    /\ op = "idle"
    /\ \E p \in Cells, o \in Cells, d \in 0..MAX_DEPTH, t \in BOOLEAN :
          /\ player' = p
          /\ opponent' = o
          /\ depth' = d
          /\ is_max_turn' = t
          /\ ret' = Outcome("value", minimax(p, o, d, t),
                            IF d = MAX_DEPTH \/ is_terminal(p, o) THEN 0
                            ELSE Len(MinimaxChildren(p, o, d, t)),
                            <<>>, NegInf, PosInf)
    /\ op' = "minimax"
    /\ UNCHANGED <<engine, alpha, beta, algorithm>>

CallAlphaBetaPruning ==
    /\ op = "idle"
    /\ \E p \in Cells, o \in Cells, d \in 0..MAX_DEPTH, t \in BOOLEAN,
          a \in Bounds, b \in Bounds :
          /\ a < b
          /\ player' = p
          /\ opponent' = o
          /\ depth' = d
          /\ alpha' = a
          /\ beta' = b
          /\ is_max_turn' = t
          /\ ret' = alpha_beta_pruning(p, o, d, a, b, t)
    /\ op' = "alpha_beta_pruning"
    /\ UNCHANGED <<engine, algorithm>>

CallFindBestMove ==
    /\ op = "idle"
    /\ \E p \in Cells, o \in Cells, alg \in Algorithms :
          /\ player' = p
          /\ opponent' = o
          /\ algorithm' = alg
          /\ ret' = find_best_move(p, o, alg)
    /\ op' = "find_best_move"
    /\ UNCHANGED <<engine, depth, alpha, beta, is_max_turn>>

\* The call returns to the caller, who may call again.
Return ==
    /\ op # "idle"
    /\ op' = "idle"
    /\ player' = None
    /\ opponent' = None
    /\ depth' = 0
    /\ alpha' = NegInf
    /\ beta' = PosInf
    /\ is_max_turn' = FALSE
    /\ algorithm' = ""
    /\ ret' = Idle
    /\ UNCHANGED engine

QueryNext ==
    \/ CallGetPossibleMoves
    \/ CallIsTerminal
    \/ CallUtilityFunction
    \/ Return

QuerySpec == Init /\ [][QueryNext]_vars

Next ==
    \/ CallGetPossibleMoves
    \/ CallIsTerminal
    \/ CallUtilityFunction
    \/ CallMinimax
    \/ CallAlphaBetaPruning
    \/ CallFindBestMove
    \/ Return

Spec == Init /\ [][Next]_vars

-----------------------------------------------------------------------------
(* What the claims are stated with. *)

Range(seq) == {seq[i] : i \in 1..Len(seq)}

InGrid(c) == c[1] \in 1..maze.rows /\ c[2] \in 1..maze.cols

Target(c, d) == <<c[1] + direction_map[d][1], c[2] + direction_map[d][2]>>

OpenDirections(c) == {d \in Directions : maze.maze_map[c][d] = 1}

Abs(n) == IF n < 0 THEN -n ELSE n

UnitStep(c, m) == Abs(m[1] - c[1]) + Abs(m[2] - c[2]) = 1

\* The call in progress is a search at a node the search expands.
Searching == op \in {"minimax", "alpha_beta_pruning"}

Expanded == depth < MAX_DEPTH /\ ~(player = goal_position \/ opponent = goal_position)

\* The moves of the side to move at the node of the call.
SideToMoveMoves ==
    IF is_max_turn THEN get_possible_moves(player)
    ELSE get_possible_moves(opponent)

\* The children a node has by the rules of the game.
GameChildren ==
    IF is_max_turn
    THEN {Node(m, opponent, depth + 1, FALSE) : m \in Range(get_possible_moves(player))}
    ELSE {Node(player, m, depth + 1, TRUE) : m \in Range(get_possible_moves(opponent))}

\* The children the call searched.
ExploredChildren ==
    IF op = "minimax"
    THEN Range(MinimaxChildren(player, opponent, depth, is_max_turn))
    ELSE Range(SubSeq(AlphaBetaChildren(player, opponent, depth, is_max_turn),
                      1, ret.explored))

RECURSIVE FoldSeq(_, _, _)
FoldSeq(seq, t, acc) ==
    IF seq = <<>> THEN acc
    ELSE FoldSeq(Tail(seq), t,
                 IF t THEN (IF seq[1] > acc THEN seq[1] ELSE acc)
                 ELSE (IF seq[1] < acc THEN seq[1] ELSE acc))

-----------------------------------------------------------------------------
(* The claims. *)

\* C1: called with alpha = -infinity and beta = +infinity, alpha_beta_pruning
\* returns the same value as minimax on the same (player, opponent, depth,
\* turn).
C1_AlphaBetaEqualsMinimax ==
    (op = "alpha_beta_pruning" /\ alpha = NegInf /\ beta = PosInf)
        => /\ ret.kind = "value"
           /\ ret.val = minimax(player, opponent, depth, is_max_turn)

\* C2: find_best_move scores each candidate move m by the chosen search on
\* (m, opponent) at depth 0 with the opponent to move, and returns the first
\* candidate, in enumeration order, whose score is the maximum.
C2_BestMoveIsFirstArgmax ==
    (op = "find_best_move" /\ algorithm \in {"MM", "AB"})
        => LET moves == get_possible_moves(player)
               score == [i \in 1..Len(moves) |->
                            search(algorithm, moves[i], opponent)]
           IN  /\ ret.searched = [i \in 1..Len(moves) |->
                                     Node(moves[i], opponent, 0, FALSE)]
               /\ moves # <<>> =>
                     /\ \A i \in 1..Len(moves) : score[i].kind = "value"
                     /\ ret.kind = "value"
                     /\ \E i \in 1..Len(moves) :
                           /\ ret.move = moves[i]
                           /\ \A j \in 1..Len(moves) :
                                 score[j].val <= score[i].val
                           /\ \A j \in 1..(i - 1) :
                                 score[j].val < score[i].val

\* C3: minimax and alpha_beta_pruning each return one of -1, 0, +1, never an
\* infinite sentinel and never no value.
C3_SearchValueInRange ==
    Searching => ret.kind = "value" /\ ret.val \in {-1, 0, 1}

\* C4: with a supported algorithm tag find_best_move completes with a result:
\* none when the player's cell has no candidate moves, otherwise one of the
\* player's enumerated moves; it never ends in an error.
C4_FindBestMoveCompletes ==
    (op = "find_best_move" /\ algorithm \in {"MM", "AB"})
        => IF get_possible_moves(player) = <<>>
           THEN ret.kind = "None"
           ELSE /\ ret.kind = "value"
                /\ ret.move \in Range(get_possible_moves(player))

\* C5: with an unsupported algorithm tag find_best_move fails with the
\* unsupported-algorithm error for every player and opponent position, also
\* when the player has no candidate moves, before any search call is made.
C5_UnsupportedAlgorithmFails ==
    (op = "find_best_move" /\ algorithm \notin {"MM", "AB"})
        => ret.kind = "ValueError" /\ ret.searched = <<>>

\* C6: get_possible_moves(c) returns exactly the cells c + offset(d) for the
\* directions d that are open at c and whose target is in the grid: every
\* returned cell is in the grid and one unit step from c, no open neighbour
\* in the grid is left out, and a cell with no open passage gives the empty
\* sequence.
C6_GetPossibleMovesExact ==
    op = "get_possible_moves"
        => /\ Range(ret) = {Target(player, d) : d \in OpenDirections(player)}
                               \cap Cells
           /\ \A m \in Range(ret) : InGrid(m) /\ UnitStep(player, m)
           /\ \A d \in OpenDirections(player) :
                 InGrid(Target(player, d)) => Target(player, d) \in Range(ret)
           /\ OpenDirections(player) = {} => ret = <<>>

\* A call on a cell with one open passage into the grid and one out of it.
C6_Witness ==
    /\ op = "get_possible_moves"
    /\ ret # <<>>
    /\ \E d \in OpenDirections(player) : ~InGrid(Target(player, d))

C8_ChildrenFromSideToMove ==
    (Searching /\ Expanded)
        => /\ ExploredChildren \subseteq GameChildren
           /\ op = "minimax" => ExploredChildren = GameChildren

\* C9: alpha_beta_pruning evaluates the candidates of a node until the list
\* is exhausted or beta <= alpha, on either ply, and then returns the running
\* maximum or minimum over the candidates evaluated; it does not stop after
\* the first candidate when no cutoff has fired.
C9_EvaluatesUntilCutoff ==
    (/\ op = "alpha_beta_pruning"
     /\ Expanded
     /\ AlphaBetaChildren(player, opponent, depth, is_max_turn) # <<>>)
        => /\ ret.kind = "value"
           /\ \/ ret.explored =
                    Len(AlphaBetaChildren(player, opponent, depth, is_max_turn))
              \/ ret.beta <= ret.alpha
           /\ Len(ret.evals) = ret.explored
           /\ ret.val = FoldSeq(ret.evals, is_max_turn,
                                IF is_max_turn THEN NegInf ELSE PosInf)

\* C10: at a non-terminal node with depth < 5 where the side to move has no
\* moves, minimax and alpha_beta_pruning return utility(player, opponent).
C10_DeadEndReturnsUtility ==
    (Searching /\ Expanded /\ SideToMoveMoves = <<>>)
        => /\ ret.kind = "value"
           /\ ret.val = utility_function(player, opponent)

=============================================================================
